---- MODULE Spec2Model ----
(***************************************************************************)
(* A model of build_feeds.py: one RSS feed per configured source, found by *)
(* feed discovery, listing scraping or a sitemap walk, plus an index page. *)
(*                                                                         *)
(* Text is modelled by strings, "" being the empty string (and an absent   *)
(* dict key where the code reads it with .get(..) or ..).  A URL is a      *)
(* record [www, dom, path]: the host is "www." + dom when www holds, the   *)
(* path is the sequence of its /-separated segments (a trailing "/" is a   *)
(* last segment ""), the scheme is https throughout.                       *)
(***************************************************************************)
EXTENDS Integers, Sequences, FiniteSets, TLC

VARIABLES
  sources_json,  \* the file sources.json: [readable, list]
  pc,            \* where main (or the function under study) stands
  sources,       \* the list json.load returned
  idx,           \* position of the for loop of line 436 in sources
  src,           \* name, page_url, slug and mode of the source in hand
  candidates,    \* discover_feed_urls' result
  ci,            \* position of the for loop of line 447 in candidates
  feed,          \* <<>> for None, else <<the validated document>>
  items,         \* the item list of the source in hand
  feed_map,      \* the (name, slug) pairs of the sources written
  files,         \* the paths written under feeds/, in order of writing
  index,         \* <<>> until index.html is written, then <<its rows>>
  log,           \* the requests made for the source in hand, in order
  world,         \* what the network answers to the feed probes of this source
  fin,           \* the arguments of the function under study
  fout           \* <<>> before the call, then <<its result>>

vars == <<sources_json, pc, sources, idx, src, candidates, ci, feed, items,
          feed_map, files, index, log, world, fin, fout>>

\* ------------------------------------------------------------------------
\* Configuration
\* ------------------------------------------------------------------------
MAX_ITEMS_PER_SOURCE == 20
MAX_ARTICLE_FETCHES == 10
RESPECT_ROBOTS == TRUE

COMMON_SUFFIXES ==
  << <<"feed">>, <<"feed", "">>, <<"rss">>, <<"rss.xml">>, <<"atom.xml">>,
     <<"index.xml">>, <<"feed.xml">>, <<"?feed=rss2">>, <<"?format=feed">> >>

\* ------------------------------------------------------------------------
\* Bounds of the model
\* ------------------------------------------------------------------------
MaxSources == 2      \* longest source list
MaxLinks == 2        \* most <link rel="alternate"> tags on a page
MaxWrite == 3        \* longest item list given to write_rss on its own
MaxBlocks == 2       \* most structured-data <script> blocks on an article page
ExtraEntries == 2    \* feed entries beyond MAX_ITEMS_PER_SOURCE
ExtraAnchors == 2    \* listing anchors beyond MAX_ARTICLE_FETCHES

\* ------------------------------------------------------------------------
\* Sequences
\* ------------------------------------------------------------------------
Min(a, b) == IF a <= b THEN a ELSE b
Max(a, b) == IF a >= b THEN a ELSE b
Range(s) == {s[i] : i \in 1..Len(s)}
Take(s, n) == SubSeq(s, 1, Min(n, Len(s)))
NoDup(s) == \A i, j \in 1..Len(s) : s[i] = s[j] => i = j
SeqsUpTo(S, n) == UNION {[1..k -> S] : k \in 0..n}

\* ------------------------------------------------------------------------
\* URLs
\* ------------------------------------------------------------------------
Url(w, d, p) == [www |-> w, dom |-> d, path |-> p]

\* str.rstrip("/") on the path: drop every trailing empty segment
RECURSIVE rstrip(_)
rstrip(p) == IF Len(p) > 0 /\ p[Len(p)] = "" THEN rstrip(SubSeq(p, 1, Len(p) - 1)) ELSE p

\* urljoin(base + "/", sfx), base a URL without trailing slash, sfx relative
urljoin_dir(base, sfx) == Url(base.www, base.dom, base.path \o sfx)

\* urljoin(page_url, href), href a root-relative reference
urljoin_root(page_url, href) == Url(page_url.www, page_url.dom, href)

\* "medium.com" in host_l or host_l.endswith(".medium.com")
is_medium(u) == u.dom \in {"medium.com", "blog.medium.com"}

\* ------------------------------------------------------------------------
\* Feed discovery
\* ------------------------------------------------------------------------
\* any(x in t for x in ["rss", "atom", "xml", "json"]) over the types in use
is_feed_type(t) == t \in {"application/rss+xml", "application/atom+xml", "application/feed+json"}

\* the loop of lines 88-93 over the page's <link rel="alternate"> tags
RECURSIVE link_hints(_, _)
link_hints(page_url, links) ==
  IF links = <<>> THEN <<>>
  ELSE LET l == Head(links)
           rest == link_hints(page_url, Tail(links))
       IN IF is_feed_type(l.type) /\ l.href # <<>>
          THEN <<urljoin_root(page_url, l.href)>> \o rest
          ELSE rest

suffix_urls(page_url) ==
  LET base == Url(page_url.www, page_url.dom, rstrip(page_url.path))
  IN [k \in 1..Len(COMMON_SUFFIXES) |-> urljoin_dir(base, COMMON_SUFFIXES[k])]

root_guesses(page_url) ==
  << Url(page_url.www, page_url.dom, <<"feed">>),
     Url(page_url.www, page_url.dom, <<"blog", "feed">>),
     Url(FALSE, page_url.dom, <<"feed">>),
     Url(FALSE, page_url.dom, <<"blog", "feed">>) >>

medium_first(page_url, cands) ==
  IF is_medium(page_url)
  THEN <<urljoin_dir(Url(page_url.www, page_url.dom, rstrip(page_url.path)), <<"feed">>)>> \o cands
  ELSE cands

\* dedup keeping the last occurrence of each URL instead of the first
RECURSIVE dedup_last(_, _)
dedup_last(cands, seen) ==
  IF cands = <<>> THEN <<>>
  ELSE IF Head(cands) \in Range(Tail(cands)) THEN dedup_last(Tail(cands), seen)
       ELSE <<Head(cands)>> \o dedup_last(Tail(cands), seen)

\* lines 121-125: keep the first occurrence of each URL
RECURSIVE dedup(_, _)
dedup(cands, seen) ==
  IF cands = <<>> THEN <<>>
  ELSE IF Head(cands) \in seen THEN dedup(Tail(cands), seen)
       ELSE <<Head(cands)>> \o dedup(Tail(cands), seen \cup {Head(cands)})

\* page: the outcome of fetching page_url, [ok, links]
discover_feed_urls(page_url, page) ==
  LET hints == IF page.ok THEN link_hints(page_url, page.links) ELSE <<>>
      cands == hints \o suffix_urls(page_url) \o root_guesses(page_url)
  IN dedup(medium_first(page_url, cands), {})

\* ------------------------------------------------------------------------
\* Time helpers
\* ------------------------------------------------------------------------
\* rfc2822() of the current time
NOW == "Mon, 02 Nov 2026 06:00:00 GMT"

\* datetime.fromisoformat(s.replace("Z", "+00:00")) then rfc2822(dt); "" when
\* fromisoformat raises
iso_to_rfc2822(s) ==
  IF s = "2024-03-05T10:00:00Z" THEN "Tue, 05 Mar 2024 10:00:00 GMT" ELSE ""

\* _DATE_URL_PAT.search(s) and datetime(y, m, d): "" stands for None
guess_rfc2822_from_text(s) ==
  IF s \in {"2024-03-05T10:00:00Z", "posted 2024/03/05", "2024/03/05"}
  THEN "Tue, 05 Mar 2024 00:00:00 GMT"
  ELSE ""

\* the same search over the text of a URL: a path segment may carry the date
RECURSIVE guess_rfc2822_from_path(_)
guess_rfc2822_from_path(p) ==
  IF p = <<>> THEN ""
  ELSE IF guess_rfc2822_from_text(Head(p)) # "" THEN guess_rfc2822_from_text(Head(p))
       ELSE guess_rfc2822_from_path(Tail(p))

\* x or y on strings
Or(x, y) == IF x # "" THEN x ELSE y

\* str.strip()
strip(s) == IF s \in {" ", "  "} THEN "" ELSE s

\* str(url), as it appears inside titles
url_str(u) == ToString(u)

\* ------------------------------------------------------------------------
\* HTTP + robots
\* ------------------------------------------------------------------------
IsPrefix(p, q) == Len(p) <= Len(q) /\ SubSeq(q, 1, Len(p)) = p

\* robots: what reading the host's robots.txt gives, [readable, disallow];
\* disallow is the set of path prefixes closed to the agent
robots_allows(url, robots) ==
  IF ~RESPECT_ROBOTS THEN TRUE
  ELSE IF ~robots.readable THEN TRUE
  ELSE \A d \in robots.disallow : ~IsPrefix(d, url.path)

\* entries of the request log
Ev(e, k, u, o) == [ev |-> e, kind |-> k, url |-> u, ok |-> o]

\* ------------------------------------------------------------------------
\* Article metadata extraction
\* ------------------------------------------------------------------------
Item(t, l, p, d) == [title |-> t, link |-> l, pubDate |-> p, description |-> d]

\* A JSON value is [kind |-> "scalar"], [kind |-> "list", elems] or a dict
\* [kind |-> "dict", type, headline, name, url, datePublished, dateModified,
\* description, values]: values lists the dict's values that are themselves
\* lists or dicts, in key order (its scalar values are popped and passed over).
\* A <script> whose text json.loads rejects is [kind |-> "invalid"].

\* any(x in str(t) for x in ["Article", "BlogPosting", "NewsArticle"]), a list
\* of types being joined with ","
matches_type(t) ==
  t \in {"Article", "BlogPosting", "NewsArticle", "TechArticle", "WebPage,Article"}

\* lines 153-156 and 158-163: the item made from a matching dict
jsonld_item(obj, base_url) ==
  Item(Or(obj.headline, obj.name),
       IF obj.url # <<>> THEN urljoin_root(base_url, obj.url) ELSE base_url,
       Or(obj.datePublished, obj.dateModified),
       obj.description)

\* lines 145-167: stack.pop() takes the value pushed last
RECURSIVE walk_jsonld(_, _, _)
walk_jsonld(stack, its, base_url) ==
  IF stack = <<>> THEN its
  ELSE LET obj == stack[Len(stack)]
           rest == SubSeq(stack, 1, Len(stack) - 1)
       IN IF obj.kind = "dict"
          THEN walk_jsonld(rest \o obj.values,
                 IF matches_type(obj.type) /\ Or(obj.headline, obj.name) # ""
                 THEN Append(its, jsonld_item(obj, base_url)) ELSE its,
                 base_url)
          ELSE IF obj.kind = "list" THEN walk_jsonld(rest \o obj.elems, its, base_url)
          ELSE walk_jsonld(rest, its, base_url)

\* lines 139-144 and 168: the <script> blocks of the page, in page order
RECURSIVE parse_blocks(_, _, _)
parse_blocks(blocks, its, base_url) ==
  IF blocks = <<>> THEN its
  ELSE IF Head(blocks).kind = "invalid" THEN parse_blocks(Tail(blocks), its, base_url)
       ELSE parse_blocks(Tail(blocks), walk_jsonld(<<Head(blocks)>>, its, base_url), base_url)

parse_jsonld_articles(blocks, base_url) == parse_blocks(blocks, <<>>, base_url)

\* the pubDate of lines 197-205 and 224-229
normalize_date(s) ==
  IF s = "" THEN NOW
  ELSE IF iso_to_rfc2822(s) # "" THEN iso_to_rfc2822(s)
       ELSE Or(guess_rfc2822_from_text(s), NOW)

\* page: the outcome of fetching article_url; the result is <<>> for None
extract_article_meta(article_url, page) ==
  IF page.status # "200" THEN <<>>
  ELSE LET ld == parse_jsonld_articles(page.ld, article_url)
           \* content of the first of <meta name="description">, og:description
           md == IF page.hasMetaDescription THEN page.metaDescription
                 ELSE page.ogDescription
       IN IF ld # <<>>
          THEN LET item == ld[1]
               IN << Item(item.title, item.link, normalize_date(item.pubDate),
                          IF item.description = "" THEN md ELSE item.description) >>
          ELSE LET title0 == IF page.ogTitle # "" THEN strip(page.ogTitle)
                             ELSE strip(page.titleTag)
                   iso_dt == IF strip(page.timeDatetime) # "" THEN strip(page.timeDatetime)
                             ELSE strip(page.publishedTime)
                   pub == IF iso_dt # "" THEN normalize_date(iso_dt)
                          ELSE Or(guess_rfc2822_from_path(article_url.path), NOW)
                   desc == strip(md)
                   title == IF title0 = "" THEN url_str(article_url) ELSE title0
               IN << Item(title, article_url, pub, Or(desc, title)) >>

\* ------------------------------------------------------------------------
\* Scraping (listing + article pages)
\* ------------------------------------------------------------------------
\* any(x in url.lower() for x in ["#", "/tag/", "/category/", "/login", ...])
is_junk(u) == \E k \in 1..Len(u.path) : u.path[k] \in {"tag", "category", "login", "signup", "#top"}

\* lines 276-290: links is the list the selectors matched, in selector order
RECURSIVE collect_links(_, _, _, _, _)
collect_links(page_url, links, seen, article_urls, cap) ==
  IF links = <<>> THEN article_urls
  ELSE LET a == Head(links)
           title == strip(a.text)
           url == urljoin_root(page_url, a.href)
       IN IF a.href = <<>> \/ title = ""
          THEN collect_links(page_url, Tail(links), seen, article_urls, cap)
          ELSE IF url \in seen
          THEN collect_links(page_url, Tail(links), seen, article_urls, cap)
          ELSE IF is_junk(url)
          THEN collect_links(page_url, Tail(links), seen \cup {url}, article_urls, cap)
          ELSE IF Len(article_urls) + 1 >= cap
          THEN Append(article_urls, [title |-> title, url |-> url])
          ELSE collect_links(page_url, Tail(links), seen \cup {url},
                             Append(article_urls, [title |-> title, url |-> url]), cap)

\* visit_articles with the budget test off by one
RECURSIVE visit_articles_late(_, _, _, _, _, _)
visit_articles_late(article_urls, limit, net, final, fetch_count, reqs) ==
  IF article_urls = <<>> THEN [final |-> final, fetch_count |-> fetch_count, reqs |-> reqs]
  ELSE IF fetch_count > MAX_ARTICLE_FETCHES \/ Len(final) >= limit
  THEN [final |-> final, fetch_count |-> fetch_count, reqs |-> reqs]
  ELSE LET a == Head(article_urls)
           allowed == robots_allows(a.url, net.robots)
           meta == extract_article_meta(a.url, net.page[a.url])
       IN IF RESPECT_ROBOTS /\ ~allowed
          THEN visit_articles_late(Tail(article_urls), limit, net, final, fetch_count,
                                   Append(reqs, Ev("robots", "article", a.url, FALSE)))
          ELSE visit_articles_late(Tail(article_urls), limit, net,
                 Append(final, IF meta # <<>> THEN meta[1]
                               ELSE Item(a.title, a.url, NOW, a.title)),
                 fetch_count + 1,
                 reqs \o << Ev("robots", "article", a.url, TRUE),
                            Ev("get", "article", a.url, meta # <<>>) >>)

\* lines 297-308: net gives the robots policy and the page behind each URL;
\* the result carries the items, the fetch count and the requests made
RECURSIVE visit_articles(_, _, _, _, _, _)
visit_articles(article_urls, limit, net, final, fetch_count, reqs) ==
  IF article_urls = <<>> THEN [final |-> final, fetch_count |-> fetch_count, reqs |-> reqs]
  ELSE IF fetch_count >= MAX_ARTICLE_FETCHES \/ Len(final) >= limit
  THEN [final |-> final, fetch_count |-> fetch_count, reqs |-> reqs]
  ELSE LET a == Head(article_urls)
           allowed == robots_allows(a.url, net.robots)
           meta == extract_article_meta(a.url, net.page[a.url])
       IN IF RESPECT_ROBOTS /\ ~allowed
          THEN visit_articles(Tail(article_urls), limit, net, final, fetch_count,
                              Append(reqs, Ev("robots", "article", a.url, FALSE)))
          ELSE visit_articles(Tail(article_urls), limit, net,
                 Append(final, IF meta # <<>> THEN meta[1]
                               ELSE Item(a.title, a.url, NOW, a.title)),
                 fetch_count + 1,
                 reqs \o << Ev("robots", "article", a.url, TRUE),
                            Ev("get", "article", a.url, meta # <<>>) >>)

no_items_placeholder(page_url) ==
  Item(url_str(page_url) \o " - no items discovered", page_url, NOW, "No posts detected.")

\* listing: the outcome of fetching page_url, [ok, links].  When the fetch (or
\* raise_for_status) raises, article_urls was never bound and line 297 raises
\* UnboundLocalError: raised is TRUE and there is no result
scrape_items(page_url, limit, listing, net) ==
  LET get_listing == << Ev("get", "listing", page_url, listing.ok) >>
  IN IF ~listing.ok
     THEN [raised |-> TRUE, items |-> <<>>, fetch_count |-> 0, reqs |-> get_listing]
     ELSE LET article_urls == collect_links(page_url, listing.links, {}, <<>>,
                                            Max(limit * 2, 30))
              v == visit_articles(article_urls, limit, net, <<>>, 0, get_listing)
          IN [raised |-> FALSE,
              items |-> IF v.final = <<>> THEN <<no_items_placeholder(page_url)>> ELSE v.final,
              fetch_count |-> v.fetch_count,
              reqs |-> v.reqs]

\* ------------------------------------------------------------------------
\* Sitemap fallback
\* ------------------------------------------------------------------------
sitemap_bases(page_url) ==
  << Url(page_url.www, page_url.dom, <<"sitemap.xml">>),
     Url(page_url.www, page_url.dom, <<"sitemap_index.xml">>) >>

\* u.startswith(f"{scheme}://{netloc}/")
same_host(page_url, u) == u.www = page_url.www /\ u.dom = page_url.dom /\ u.path # <<>>

RECURSIVE same_host_locs(_, _)
same_host_locs(page_url, locs) ==
  IF locs = <<>> THEN <<>>
  ELSE IF same_host(page_url, Head(locs))
       THEN <<Head(locs)>> \o same_host_locs(page_url, Tail(locs))
       ELSE same_host_locs(page_url, Tail(locs))

\* lines 332-343: sm[k] is the outcome of fetching the k-th sitemap URL
RECURSIVE read_sitemaps(_, _, _, _, _)
read_sitemaps(page_url, sm, k, urls, reqs) ==
  IF k > Len(sitemap_bases(page_url)) THEN [urls |-> urls, reqs |-> reqs]
  ELSE LET r == sm[k]
           got == Append(reqs, Ev("get", "sitemap", sitemap_bases(page_url)[k], r.status = "200"))
           found == same_host_locs(page_url, r.locs)
       IN IF r.status # "200" THEN read_sitemaps(page_url, sm, k + 1, urls, got)
          ELSE IF found # <<>> THEN [urls |-> found, reqs |-> got]
          ELSE read_sitemaps(page_url, sm, k + 1, found, got)

\* lines 348-355
RECURSIVE visit_sitemap_urls(_, _, _, _, _)
visit_sitemap_urls(urls, limit, net, its, reqs) ==
  IF urls = <<>> \/ Len(its) >= limit THEN [items |-> its, reqs |-> reqs]
  ELSE LET u == Head(urls)
           meta == extract_article_meta(u, net.page[u])
       IN IF RESPECT_ROBOTS /\ ~robots_allows(u, net.robots)
          THEN visit_sitemap_urls(Tail(urls), limit, net, its,
                                  Append(reqs, Ev("robots", "article", u, FALSE)))
          ELSE visit_sitemap_urls(Tail(urls), limit, net,
                 IF meta # <<>> THEN Append(its, meta[1]) ELSE its,
                 reqs \o << Ev("robots", "article", u, TRUE),
                            Ev("get", "article", u, meta # <<>>) >>)

sitemap_placeholder(page_url) ==
  Item(url_str(page_url) \o " - sitemap had no items", page_url, NOW, "No items from sitemap.")

scrape_from_sitemap(page_url, limit, sm, net) ==
  LET r == read_sitemaps(page_url, sm, 1, <<>>, <<>>)
      v == visit_sitemap_urls(Take(r.urls, Max(limit * 2, 30)), limit, net, <<>>, r.reqs)
  IN [items |-> IF v.items = <<>> THEN <<sitemap_placeholder(page_url)>> ELSE v.items,
      reqs |-> v.reqs]

\* ------------------------------------------------------------------------
\* RSS + index writers
\* ------------------------------------------------------------------------
\* xml.sax.saxutils.escape: & < > become entities
escape(s) ==
  CASE s = "R&D <labs>" -> "R&amp;D &lt;labs&gt;"
    [] s = "R&amp;D &lt;labs&gt;" -> "R&amp;amp;D &amp;lt;labs&amp;gt;"
    [] s = "Q&A" -> "Q&amp;A"
    [] s = "Q&amp;A" -> "Q&amp;amp;A"
    [] OTHER -> s

\* item_xml: the <item> element of one item; no URL of the model holds & < >
item_xml(i, last_build) ==
  [title |-> escape(i.title),
   link |-> i.link,
   description |-> escape(Or(i.description, escape(i.title))),
   pubDate |-> Or(i.pubDate, last_build)]

\* write_rss emitting the items newest-listed first
write_rss_reversed(out_path, channel_title, channel_link, its) ==
  [path |-> out_path,
   title |-> escape(channel_title),
   link |-> channel_link,
   lastBuildDate |-> NOW,
   entries |-> [k \in 1..Len(its) |-> item_xml(its[Len(its) + 1 - k], NOW)]]

\* the document write_rss writes at out_path
write_rss(out_path, channel_title, channel_link, its) ==
  [path |-> out_path,
   title |-> escape(channel_title),
   link |-> channel_link,
   lastBuildDate |-> NOW,
   entries |-> [k \in 1..Len(its) |-> item_xml(its[k], NOW)]]

\* the rows build_index writes to index.html
build_index(fm) == [k \in 1..Len(fm) |-> [name |-> fm[k].name, rel |-> fm[k].slug \o ".xml"]]

\* ------------------------------------------------------------------------
\* The inputs: pages, robots policies, article pages, listings, sitemaps
\* ------------------------------------------------------------------------
EmptyUrl == Url(FALSE, "", <<>>)
AcmeBlog == Url(FALSE, "acme.example", <<"blog">>)
WwwRoot == Url(TRUE, "acme.example", <<>>)
WwwBlogSlash == Url(TRUE, "acme.example", <<"blog", "">>)
MediumUser == Url(FALSE, "medium.com", <<"@user">>)
PageUrls == {AcmeBlog, WwwRoot, WwwBlogSlash, MediumUser}

LinkTags ==
  { [type |-> "application/rss+xml", href |-> <<"blog", "feed", "">>],
    [type |-> "application/atom+xml", href |-> <<"feed">>],
    [type |-> "application/rss+xml", href |-> <<"custom", "rss">>],
    [type |-> "text/html", href |-> <<"blog", "amp">>],
    [type |-> "application/rss+xml", href |-> <<>>] }

FetchedPage(o, l) == [ok |-> o, links |-> l]
PageFetches == {FetchedPage(FALSE, <<>>)} \cup {FetchedPage(TRUE, l) : l \in SeqsUpTo(LinkTags, MaxLinks)}
\* the page fetches main is run against
MainPageFetches ==
  { FetchedPage(FALSE, <<>>), FetchedPage(TRUE, <<>>),
    FetchedPage(TRUE, << [type |-> "text/html", href |-> <<"blog", "amp">>],
                         [type |-> "application/rss+xml", href |-> <<"blog", "feed", "">>] >>) }

\* robots.txt of a host: unreadable, open, closed, or closing some paths
Policies ==
  { [readable |-> FALSE, disallow |-> {<<>>}],
    [readable |-> TRUE, disallow |-> {}],
    [readable |-> TRUE, disallow |-> {<<>>}],
    [readable |-> TRUE, disallow |-> {<<"blog">>, <<"posts", "p2">>}],
    [readable |-> TRUE, disallow |-> {<<"posts", "p1">>, <<"posts", "p3">>}] }

\* article pages
JsonScalar == [kind |-> "scalar"]
JsonInvalid == [kind |-> "invalid"]
JsonList(elems) == [kind |-> "list", elems |-> elems]
JsonDict(t, h, n, u, dp, dm, d, vs) ==
  [kind |-> "dict", type |-> t, headline |-> h, name |-> n, url |-> u,
   datePublished |-> dp, dateModified |-> dm, description |-> d, values |-> vs]
\* a <script> block holding one BlogPosting object
LdObject(h, n, u, dp, dm, d) == JsonDict("BlogPosting", h, n, u, dp, dm, d, <<JsonScalar>>)
ArticlePage(st, ld, tt, ot, td, pt, hm, md, od) ==
  [status |-> st, ld |-> ld, titleTag |-> tt, ogTitle |-> ot, timeDatetime |-> td,
   publishedTime |-> pt, hasMetaDescription |-> hm, metaDescription |-> md,
   ogDescription |-> od]
PageGone == ArticlePage("404", <<>>, "", "", "", "", FALSE, "", "")
PageError == ArticlePage("exc", <<>>, "", "", "", "", FALSE, "", "")
PageBare == ArticlePage("200", <<>>, " ", "", "", "", FALSE, "", "")
PageMeta == ArticlePage("200", <<>>, "Acme post", "Q&A", "posted 2024/03/05", "",
                        TRUE, "", "About the post")
PageLdFull ==
  ArticlePage("200",
              << LdObject("R&D <labs>", "", <<>>, "2024-03-05T10:00:00Z", "", "Summary") >>,
              "Acme post", "", "", "", FALSE, "", "")
PageLdNoDesc ==
  ArticlePage("200",
              << LdObject("", "", <<>>, "", "", "Untitled object"),
                 LdObject("", "Named", <<"posts", "canonical">>, "", "yesterday", "") >>,
              "Acme post", "", "", "", FALSE, "", "")

MaxArticles == MAX_ITEMS_PER_SOURCE * 2 + ExtraAnchors
ArticleUrl(page_url, n) == Url(page_url.www, page_url.dom, <<"posts", "p" \o ToString(n)>>)
DatedUrl(page_url) == Url(page_url.www, page_url.dom, <<"posts", "2024/03/05">>)
ArticleUrls(page_url) == {ArticleUrl(page_url, n) : n \in 1..MaxArticles} \cup {DatedUrl(page_url)}

MixedPage(n) ==
  CASE n % 5 = 1 -> PageMeta
    [] n % 5 = 2 -> PageLdNoDesc
    [] n % 5 = 3 -> PageError
    [] n % 5 = 4 -> PageLdFull
    [] OTHER -> PageGone

PageKinds == {"gone", "bare", "ld", "mixed"}
PageOf(kind, page_url, u) ==
  CASE kind = "gone" -> PageGone
    [] kind = "bare" -> PageBare
    [] kind = "ld" -> PageLdNoDesc
    [] OTHER -> IF u = DatedUrl(page_url) THEN PageBare
                ELSE MixedPage(CHOOSE n \in 1..MaxArticles : u = ArticleUrl(page_url, n))

ArticlePagesOf ==
  [b \in PageUrls |-> [kind \in PageKinds |-> [u \in ArticleUrls(b) |-> PageOf(kind, b, u)]]]

\* what the network holds for the articles of a page
Net(page_url, policy, kind) == [robots |-> policy, page |-> ArticlePagesOf[page_url][kind]]

\* listing pages
Anchor(n) == [href |-> <<"posts", "p" \o ToString(n)>>, text |-> "Post " \o ToString(n)]
PlainLinks(k) == [n \in 1..k |-> Anchor(n)]
MessyLinks ==
  << Anchor(1), Anchor(1), [href |-> <<>>, text |-> "No target"],
     [href |-> <<"posts", "p9">>, text |-> " "], [href |-> <<"tag", "news">>, text |-> "News"],
     Anchor(2), [href |-> <<"posts", "2024/03/05">>, text |-> "Dated"], Anchor(3) >>
Listings ==
  { FetchedPage(FALSE, <<>>), FetchedPage(TRUE, MessyLinks) }
  \cup { FetchedPage(TRUE, PlainLinks(k)) : k \in {0, 1, 3, MAX_ARTICLE_FETCHES + ExtraAnchors, MaxArticles} }
\* the listings main is run against
MainListings ==
  { FetchedPage(FALSE, <<>>), FetchedPage(TRUE, MessyLinks),
    FetchedPage(TRUE, PlainLinks(MAX_ARTICLE_FETCHES + ExtraAnchors)) }

\* sitemap fetches
Sitemap(st, locs) == [status |-> st, locs |-> locs]
Locs(page_url, k) == [n \in 1..k |-> ArticleUrl(page_url, n)]
SitemapFetchesOf(page_url) ==
  { << Sitemap("404", <<>>), Sitemap("404", <<>>) >>,
    << Sitemap("exc", <<>>), Sitemap("200", <<ArticleUrl(EmptyUrl, 1)>> \o Locs(page_url, 3)) >>,
    << Sitemap("200", <<ArticleUrl(EmptyUrl, 1)>>), Sitemap("200", Locs(page_url, 2)) >>,
    << Sitemap("200", Locs(page_url, MaxArticles)), Sitemap("404", <<>>) >> }
SitemapFetches == [b \in PageUrls |-> SitemapFetchesOf(b)]

\* ------------------------------------------------------------------------
\* Feeds and their validation
\* ------------------------------------------------------------------------
FeedEntry(t, s, l, p, u) == [title |-> t, summary |-> s, link |-> l, published |-> p, updated |-> u]

\* the k-th entry of the feeds of the model: complete, title-less, or empty
EntryAt(page_url, k) ==
  CASE k % 3 = 1 -> FeedEntry("Entry " \o ToString(k), "<p>Sum</p>", ArticleUrl(page_url, k),
                              "2024-03-05T10:00:00Z", "")
    [] k % 3 = 2 -> FeedEntry("", "<br/>", EmptyUrl, "", "2024-04-01T00:00:00Z")
    [] OTHER -> FeedEntry("", "", EmptyUrl, "", "")

FeedSizes == {1, 3, MAX_ITEMS_PER_SOURCE, MAX_ITEMS_PER_SOURCE + ExtraEntries}
FeedDocs ==
  [b \in PageUrls |-> [n \in FeedSizes |->
     [raises |-> FALSE, bozo |-> FALSE, entries |-> [k \in 1..n |-> EntryAt(b, k)]]]]
FeedDoc(page_url, n) == FeedDocs[page_url][n]

\* what feedparser.parse gives for the k-th candidate in the world fw
FeedResponse(fw, page_url, k) ==
  IF k \in fw.raise THEN [raises |-> TRUE, bozo |-> FALSE, entries |-> <<>>]
  ELSE IF k \in fw.accept THEN FeedDoc(page_url, fw.size)
  ELSE IF k % 2 = 1 THEN [raises |-> FALSE, bozo |-> TRUE, entries |-> FeedDoc(page_url, 1).entries]
  ELSE [raises |-> FALSE, bozo |-> FALSE, entries |-> <<>>]

FeedWorld(a, r, z) == [accept |-> a, raise |-> r, size |-> z]
\* n: the number of candidates
FeedWorlds(n) ==
  { FeedWorld({}, {}, 1), FeedWorld({}, {1, 2}, 1), FeedWorld({1}, {}, 1),
    FeedWorld({2}, {1, 2}, 3), FeedWorld({3}, {1, 2}, 3), FeedWorld({2, 4}, {}, MAX_ITEMS_PER_SOURCE),
    FeedWorld({2, 4}, {1, 2}, MAX_ITEMS_PER_SOURCE + ExtraEntries),
    FeedWorld({n}, {}, MAX_ITEMS_PER_SOURCE + ExtraEntries) }

\* validate_feed without the bozo test
validate_feed_any(d) == IF d.entries = <<>> THEN <<>> ELSE <<d>>

\* d: the parse result; <<>> stands for None
validate_feed(d) == IF d.bozo \/ d.entries = <<>> THEN <<>> ELSE <<d>>

\* time.struct_time turned into datetime and through rfc2822
struct_to_rfc2822(t) ==
  CASE t = "2024-03-05T10:00:00Z" -> "Tue, 05 Mar 2024 10:00:00 GMT"
    [] t = "2024-04-01T00:00:00Z" -> "Mon, 01 Apr 2024 00:00:00 GMT"
    [] OTHER -> NOW

\* BeautifulSoup(summary).get_text(" ", strip=True)[:1000]
summary_text(s) ==
  CASE s = "<p>Sum</p>" -> "Sum"
    [] s = "<br/>" -> ""
    [] OTHER -> s

\* entry_item without the "Untitled" default of the title
entry_item_no_default(e, page_url) ==
  Item(Or(e.title, e.summary),
       IF e.link # EmptyUrl THEN e.link ELSE page_url,
       IF e.published # "" THEN struct_to_rfc2822(e.published)
       ELSE IF e.updated # "" THEN struct_to_rfc2822(e.updated)
       ELSE NOW,
       summary_text(e.summary))

\* lines 471-482: one feedparser entry as an item
entry_item(e, page_url) ==
  Item(Or(Or(e.title, e.summary), "Untitled"),
       IF e.link # EmptyUrl THEN e.link ELSE page_url,
       IF e.published # "" THEN struct_to_rfc2822(e.published)
       ELSE IF e.updated # "" THEN struct_to_rfc2822(e.updated)
       ELSE NOW,
       summary_text(e.summary))

\* feed_items without the slice: every entry is converted
feed_items_uncapped(d, page_url) ==
  [k \in 1..Len(d.entries) |-> entry_item(d.entries[k], page_url)]

\* line 470: feed.entries[:MAX_ITEMS_PER_SOURCE], converted in order
feed_items(d, page_url) ==
  [k \in 1..Min(Len(d.entries), MAX_ITEMS_PER_SOURCE) |-> entry_item(d.entries[k], page_url)]

orchestrator_placeholder(name, page_url) ==
  Item(name \o " - no items discovered", page_url, NOW,
       "Feed builder could not detect recent posts automatically.")

\* ------------------------------------------------------------------------
\* The source list
\* ------------------------------------------------------------------------
\* str.lower() on the mode
lower(m) == CASE m = "Sitemap" -> "sitemap" [] m = "SCRAPE" -> "scrape" [] OTHER -> m

SourceRecords ==
  { [name |-> "Acme Research", url |-> AcmeBlog, slug |-> "acme"],
    [name |-> "R&D <labs>", url |-> AcmeBlog, slug |-> "labs", mode |-> "scrape"],
    [name |-> "Www", url |-> WwwRoot, slug |-> "www", mode |-> "Sitemap"],
    [url |-> AcmeBlog, slug |-> "noname", mode |-> "scrape"],
    [name |-> "No url", slug |-> "nourl"],
    [name |-> "No slug", url |-> WwwRoot, mode |-> "sitemap"] }

WellFormed(r) == {"name", "url", "slug"} \subseteq DOMAIN r

ConfigFiles ==
  {[readable |-> FALSE, list |-> <<>>]}
  \cup {[readable |-> TRUE, list |-> l] : l \in SeqsUpTo(SourceRecords, MaxSources)}

NoSource == [name |-> "", page_url |-> EmptyUrl, slug |-> "", mode |-> ""]
NoWorld == FeedWorld({}, {}, 0)
NoInput == [fn |-> "none"]

out_path(slug) == "feeds/" \o slug \o ".xml"

\* ------------------------------------------------------------------------
\* Main
\* ------------------------------------------------------------------------
Idle ==
  /\ sources = <<>> /\ idx = 0 /\ src = NoSource /\ candidates = <<>> /\ ci = 0
  /\ feed = <<>> /\ items = <<>> /\ feed_map = <<>> /\ files = <<>> /\ index = <<>>
  /\ log = <<>> /\ world = NoWorld

Init ==
  /\ sources_json \in ConfigFiles
  /\ pc = "load"
  /\ Idle
  /\ fin = NoInput /\ fout = <<>>

\* lines 431-434: an unreadable sources.json raises out of main
LoadSources ==
  /\ pc = "load"
  /\ IF sources_json.readable
     THEN /\ sources' = sources_json.list
          /\ idx' = 1
          /\ pc' = "next"
     ELSE /\ pc' = "crashed"
          /\ UNCHANGED <<sources, idx>>
  /\ UNCHANGED <<sources_json, src, candidates, ci, feed, items, feed_map, files, index,
                 log, world, fin, fout>>

\* a wrong handling of a record that lacks a key: the record is passed over
KeyErrorSkipped == pc' = "next" /\ idx' = idx + 1 /\ UNCHANGED <<src, feed>>

\* src["name"], src["url"] or src["slug"] raises KeyError, which nothing catches
KeyErrorRaised == pc' = "crashed" /\ UNCHANGED <<idx, src, feed>>

\* lines 436-444: the head of the loop
NextSource ==
  /\ pc = "next" /\ idx <= Len(sources)
  /\ LET r == sources[idx]
         mode == lower(IF "mode" \in DOMAIN r THEN r.mode ELSE "auto")
     IN IF ~WellFormed(r)
        THEN KeyErrorRaised
        ELSE /\ src' = [name |-> r.name, page_url |-> r.url, slug |-> r.slug, mode |-> mode]
             /\ feed' = <<>>
             /\ idx' = idx
             /\ pc' = IF mode = "auto" THEN "discover" ELSE "strategy"
  /\ UNCHANGED <<sources_json, sources, candidates, ci, items, feed_map, files, index,
                 log, world, fin, fout>>

\* line 446: the page is fetched without a robots check
Discover ==
  /\ pc = "discover"
  /\ \E page \in MainPageFetches :
       /\ candidates' = discover_feed_urls(src.page_url, page)
       /\ log' = Append(log, Ev("get", "discovery", src.page_url, page.ok))
  /\ world' \in FeedWorlds(Len(candidates'))
  /\ ci' = 1
  /\ pc' = IF candidates' = <<>> THEN "strategy" ELSE "probe"
  /\ UNCHANGED <<sources_json, sources, idx, src, feed, items, feed_map, files, index, fin, fout>>

\* lines 447-455: one turn of the loop over the candidates
Probe ==
  /\ pc = "probe"
  /\ LET cand == candidates[ci]
         r == FeedResponse(world, src.page_url, ci)
         d == IF r.raises THEN <<>> ELSE validate_feed(r)
         found == d # <<>> /\ d[1].entries # <<>>
     IN /\ log' = Append(log, Ev("probe", "feed", cand, found))
        /\ IF found
           THEN feed' = d /\ pc' = "strategy" /\ ci' = ci
           ELSE /\ feed' = feed
                /\ ci' = ci + 1
                /\ pc' = IF ci = Len(candidates) THEN "strategy" ELSE "probe"
  /\ UNCHANGED <<sources_json, sources, idx, src, candidates, items, feed_map, files, index,
                 world, fin, fout>>

\* lines 458-464, robots allowing the listing page
ScrapeListing ==
  /\ pc = "strategy" /\ src.mode = "scrape"
  /\ \E policy \in Policies, kind \in PageKinds, listing \in MainListings :
       LET net == Net(src.page_url, policy, kind)
           r == scrape_items(src.page_url, MAX_ITEMS_PER_SOURCE, listing, net)
       IN /\ ~(RESPECT_ROBOTS /\ ~robots_allows(src.page_url, policy))
          /\ log' = Append(log, Ev("robots", "listing", src.page_url, TRUE)) \o r.reqs
          /\ IF r.raised THEN pc' = "crashed" /\ items' = <<>>
             ELSE pc' = "write" /\ items' = r.items
  /\ UNCHANGED <<sources_json, sources, idx, src, candidates, ci, feed, feed_map, files,
                 index, world, fin, fout>>

\* lines 458-461, robots closing the listing page
ScrapeRedirected ==
  /\ pc = "strategy" /\ src.mode = "scrape"
  /\ \E policy \in Policies, kind \in PageKinds, sm \in SitemapFetches[src.page_url] :
       LET net == Net(src.page_url, policy, kind)
           r == scrape_from_sitemap(src.page_url, MAX_ITEMS_PER_SOURCE, sm, net)
       IN /\ RESPECT_ROBOTS /\ ~robots_allows(src.page_url, policy)
          /\ log' = Append(log, Ev("robots", "listing", src.page_url, FALSE)) \o r.reqs
          /\ items' = r.items
  /\ pc' = "write"
  /\ UNCHANGED <<sources_json, sources, idx, src, candidates, ci, feed, feed_map, files,
                 index, world, fin, fout>>

\* lines 465-467
SitemapMode ==
  /\ pc = "strategy" /\ src.mode = "sitemap"
  /\ \E policy \in Policies, kind \in PageKinds, sm \in SitemapFetches[src.page_url] :
       LET net == Net(src.page_url, policy, kind)
           r == scrape_from_sitemap(src.page_url, MAX_ITEMS_PER_SOURCE, sm, net)
       IN /\ log' = log \o r.reqs
          /\ items' = r.items
  /\ pc' = "write"
  /\ UNCHANGED <<sources_json, sources, idx, src, candidates, ci, feed, feed_map, files,
                 index, world, fin, fout>>

\* lines 468-482
ConvertFeed ==
  /\ pc = "strategy" /\ src.mode \notin {"scrape", "sitemap"} /\ feed # <<>>
  /\ items' = feed_items(feed[1], src.page_url)
  /\ pc' = "write"
  /\ UNCHANGED <<sources_json, sources, idx, src, candidates, ci, feed, feed_map, files,
                 index, log, world, fin, fout>>

\* lines 483-494: no robots check precedes the listing fetch here
FallbackScrape ==
  /\ pc = "strategy" /\ src.mode \notin {"scrape", "sitemap"} /\ feed = <<>>
  /\ \E policy \in Policies, kind \in PageKinds, listing \in MainListings :
       LET net == Net(src.page_url, policy, kind)
           r == scrape_items(src.page_url, MAX_ITEMS_PER_SOURCE, listing, net)
       IN /\ log' = log \o r.reqs
          /\ IF r.raised THEN pc' = "crashed" /\ items' = <<>>
             ELSE /\ pc' = "write"
                  /\ items' = IF r.items = <<>>
                              THEN <<orchestrator_placeholder(src.name, src.page_url)>>
                              ELSE r.items
  /\ UNCHANGED <<sources_json, sources, idx, src, candidates, ci, feed, feed_map, files,
                 index, world, fin, fout>>

\* line 496
WriteRss ==
  /\ pc = "write"
  /\ fout' = <<write_rss(out_path(src.slug), src.name \o " (Custom Feed)", src.page_url, items)>>
  /\ files' = Append(files, out_path(src.slug))
  /\ pc' = "wrote"
  /\ UNCHANGED <<sources_json, sources, idx, src, candidates, ci, feed, items, feed_map,
                 index, log, world, fin>>

\* line 497 and the step to the next source, whose locals start afresh
Advance ==
  /\ pc = "wrote"
  /\ feed_map' = Append(feed_map, [name |-> src.name, slug |-> src.slug])
  /\ idx' = idx + 1
  /\ src' = NoSource /\ candidates' = <<>> /\ ci' = 0 /\ feed' = <<>> /\ items' = <<>>
  /\ log' = <<>> /\ world' = NoWorld /\ fout' = <<>>
  /\ pc' = "next"
  /\ UNCHANGED <<sources_json, sources, files, index, fin>>

\* line 499
BuildIndex ==
  /\ pc = "next" /\ idx > Len(sources)
  /\ index' = <<build_index(feed_map)>>
  /\ pc' = "done"
  /\ UNCHANGED <<sources_json, sources, idx, src, candidates, ci, feed, items, feed_map,
                 files, log, world, fin, fout>>

Next ==
  \/ LoadSources \/ NextSource \/ Discover \/ Probe
  \/ ScrapeListing \/ ScrapeRedirected \/ SitemapMode \/ ConvertFeed \/ FallbackScrape
  \/ WriteRss \/ Advance \/ BuildIndex

Spec == Init /\ [][Next]_vars

\* ------------------------------------------------------------------------
\* The functions on their own: discover_feed_urls, scrape_items, write_rss
\* ------------------------------------------------------------------------
NoConfig == [readable |-> FALSE, list |-> <<>>]

DiscoverInputs ==
  {[fn |-> "discover_feed_urls", page_url |-> u, page |-> p] : u \in PageUrls, p \in PageFetches}

InitDiscover ==
  /\ sources_json = NoConfig /\ pc = "call" /\ Idle
  /\ fin \in DiscoverInputs /\ fout = <<>>

CallDiscover ==
  /\ pc = "call" /\ fin.fn = "discover_feed_urls"
  /\ fout' = <<discover_feed_urls(fin.page_url, fin.page)>>
  /\ pc' = "returned"
  /\ UNCHANGED <<sources_json, sources, idx, src, candidates, ci, feed, items, feed_map,
                 files, index, log, world, fin>>

NextDiscover == CallDiscover

SpecDiscover == InitDiscover /\ [][NextDiscover]_vars

Limits == {1, 3, MAX_ITEMS_PER_SOURCE}

ScrapeInputs ==
  {[fn |-> "scrape_items", page_url |-> AcmeBlog, limit |-> n, listing |-> l,
    policy |-> p, kind |-> k] : n \in Limits, l \in Listings, p \in Policies, k \in PageKinds}

InitScrape ==
  /\ sources_json = NoConfig /\ pc = "call" /\ Idle
  /\ fin \in ScrapeInputs /\ fout = <<>>

CallScrapeItems ==
  /\ pc = "call" /\ fin.fn = "scrape_items"
  /\ LET r == scrape_items(fin.page_url, fin.limit, fin.listing,
                           Net(fin.page_url, fin.policy, fin.kind))
     IN fout' = <<r>> /\ pc' = IF r.raised THEN "raised" ELSE "returned"
  /\ UNCHANGED <<sources_json, sources, idx, src, candidates, ci, feed, items, feed_map,
                 files, index, log, world, fin>>

NextScrape == CallScrapeItems

SpecScrape == InitScrape /\ [][NextScrape]_vars

WriteItems ==
  { Item("Entry 1", ArticleUrl(AcmeBlog, 1), "Tue, 05 Mar 2024 10:00:00 GMT", "Sum"),
    Item("Entry 2", ArticleUrl(AcmeBlog, 2), "Mon, 01 Apr 2024 00:00:00 GMT", ""),
    Item("Q&A", ArticleUrl(AcmeBlog, 3), "", "R&D <labs>"),
    Item("Untitled", AcmeBlog, NOW, "") }

WriteInputs ==
  {[fn |-> "write_rss", out_path |-> out_path("acme"), channel_title |-> "R&D <labs> (Custom Feed)",
    channel_link |-> AcmeBlog, items |-> its] : its \in SeqsUpTo(WriteItems, MaxWrite)}

InitWrite ==
  /\ sources_json = NoConfig /\ pc = "call" /\ Idle
  /\ fin \in WriteInputs /\ fout = <<>>

CallWriteRss ==
  /\ pc = "call" /\ fin.fn = "write_rss"
  /\ fout' = <<write_rss(fin.out_path, fin.channel_title, fin.channel_link, fin.items)>>
  /\ pc' = "returned"
  /\ UNCHANGED <<sources_json, sources, idx, src, candidates, ci, feed, items, feed_map,
                 files, index, log, world, fin>>

NextWrite == CallWriteRss

SpecWrite == InitWrite /\ [][NextWrite]_vars

\* structured-data blocks: Article objects alone, in an array, nested in one
\* another, under a non-matching object, without a title; an unparseable block
Art(h, vs) == JsonDict("Article", h, "", <<>>, "", "", "", <<JsonScalar>> \o vs)
LdBlocks ==
  { Art("A", <<>>), Art("C", <<>>), Art("", <<>>), JsonInvalid,
    JsonList(<<Art("A", <<>>), Art("B", <<>>)>>),
    Art("A", <<Art("B", <<>>)>>),
    Art("A", <<Art("B", <<>>), JsonList(<<Art("C", <<>>)>>)>>),
    JsonDict("WebPage", "W", "", <<>>, "", "", "", <<JsonList(<<Art("B", <<>>), Art("C", <<>>)>>)>>) }

ExtractPages ==
  {PageGone, PageError, PageBare, PageMeta}
  \cup {ArticlePage("200", b, "Acme post", "", "", "", FALSE, "", "") : b \in SeqsUpTo(LdBlocks, MaxBlocks)}

ExtractInputs ==
  {[fn |-> "extract_article_meta", article_url |-> ArticleUrl(AcmeBlog, 1), page |-> pg] :
     pg \in ExtractPages}

InitExtract ==
  /\ sources_json = NoConfig /\ pc = "call" /\ Idle
  /\ fin \in ExtractInputs /\ fout = <<>>

CallExtractArticleMeta ==
  /\ pc = "call" /\ fin.fn = "extract_article_meta"
  /\ fout' = <<extract_article_meta(fin.article_url, fin.page)>>
  /\ pc' = "returned"
  /\ UNCHANGED <<sources_json, sources, idx, src, candidates, ci, feed, items, feed_map,
                 files, index, log, world, fin>>

NextExtract == CallExtractArticleMeta

SpecExtract == InitExtract /\ [][NextExtract]_vars

\* ------------------------------------------------------------------------
\* Properties of main
\* ------------------------------------------------------------------------
AllWellFormed == \A k \in 1..Len(sources_json.list) : WellFormed(sources_json.list[k])
ConfigError == ~sources_json.readable \/ ~AllWellFormed
\* position of the first record that lacks a required field
FirstBad ==
  CHOOSE k \in 1..Len(sources_json.list) :
    /\ ~WellFormed(sources_json.list[k])
    /\ \A j \in 1..(k - 1) : WellFormed(sources_json.list[j])

\* C1: with a readable list of well-formed records the run never aborts,
\* whatever the network answers; it ends with one feed file per source, in
\* order, and the index is written only after all of them.
C1_RunCompletes ==
  (sources_json.readable /\ AllWellFormed) =>
    /\ pc # "crashed"
    /\ index # <<>> => Len(files) = Len(sources_json.list)
    /\ pc = "done" =>
         /\ index # <<>>
         /\ files = [k \in 1..Len(sources_json.list) |-> out_path(sources_json.list[k].slug)]

\* C2 (as claimed): under a configuration error no feed file and no index is
\* ever written.
C2_NoOutputOnConfigError == ConfigError => files = <<>> /\ index = <<>>

\* C2 (amended): under a configuration error the run never completes and the
\* index is never written; an unreadable list leaves no feed file; a record
\* lacking a required field stops the run no later than at that record, so
\* only records before the first such record can have a feed file.
C2_AbortsAtBadRecord ==
  ConfigError =>
    /\ pc # "done" /\ index = <<>>
    /\ ~sources_json.readable => files = <<>>
    /\ sources_json.readable =>
         /\ Len(files) < FirstBad
         /\ \A k \in 1..Len(files) : files[k] = out_path(sources_json.list[k].slug)

C2_Witness ==
  /\ pc = "crashed" /\ sources_json.readable /\ ~AllWellFormed
  /\ FirstBad = 2 /\ idx = 2 /\ Len(files) = 1

\* C3: whenever main calls write_rss the item list has at least 1 and at most
\* MAX_ITEMS_PER_SOURCE items, and so has the document written.
C3_ItemCount ==
  /\ pc = "write" => Len(items) \in 1..MAX_ITEMS_PER_SOURCE
  /\ pc = "wrote" => Len(fout[1].entries) \in 1..MAX_ITEMS_PER_SOURCE

C3_Witness ==
  /\ pc = "write" /\ feed # <<>>
  /\ Len(feed[1].entries) > MAX_ITEMS_PER_SOURCE
  /\ Len(items) = MAX_ITEMS_PER_SOURCE

\* C4 (as claimed): every item handed to write_rss has a non-empty title,
\* link, pubDate and description.
C4_AllFieldsNonEmpty ==
  pc = "write" =>
    \A k \in 1..Len(items) :
      /\ items[k].title # "" /\ items[k].link # EmptyUrl
      /\ items[k].pubDate # "" /\ items[k].description # ""

\* C4 (amended): every item handed to write_rss has a non-empty title, link
\* and pubDate; its description may be empty, and the entry written for it
\* then carries the title as description, so that every written entry has
\* four non-empty fields.
C4_FieldsNonEmptyAtWriter ==
  /\ pc \in {"write", "wrote"} =>
       \A k \in 1..Len(items) :
         items[k].title # "" /\ items[k].link # EmptyUrl /\ items[k].pubDate # ""
  /\ pc = "wrote" =>
       \A k \in 1..Len(items) :
         LET e == fout[1].entries[k]
         IN /\ e.title # "" /\ e.link # EmptyUrl /\ e.pubDate # "" /\ e.description # ""
            /\ items[k].description = "" => e.description = escape(e.title)

C4_Witness ==
  /\ pc = "wrote"
  /\ \E k \in 1..Len(items) :
       items[k].description = "" /\ fout[1].entries[k].description # ""

\* C5: every fetch of a listing page or of an article page comes after a
\* robots check of that URL, for the same source, that allowed it.
C5_RobotsGating ==
  \A j \in 1..Len(log) :
    (log[j].ev = "get" /\ log[j].kind \in {"listing", "article"}) =>
      \E i \in 1..(j - 1) :
        log[i].ev = "robots" /\ log[i].url = log[j].url /\ log[i].ok

\* the probes of the feed candidates made so far for the source in hand
Probes == SelectSeq(log, LAMBDA e : e.ev = "probe")
\* feedparser's answer for a candidate is a well-formed feed with entries
ValidAt(k) ==
  LET r == FeedResponse(world, src.page_url, k)
  IN ~r.raises /\ ~r.bozo /\ r.entries # <<>>
ListingFetched == \E j \in 1..Len(log) : log[j].ev = "get" /\ log[j].kind = "listing"

\* C6: in auto mode the candidates are probed strictly in list order and the
\* walk stops at the first accepted one: the feed used is that of the earliest
\* candidate that validates (one whose validation raises counts as rejected),
\* nothing after it is probed, the items are its first min(n, 20) entries in
\* entry order, and the listing is scraped only if no candidate validates.
C6_FirstValidFeed ==
  src.mode = "auto" =>
    /\ Len(Probes) <= Len(candidates)
    /\ \A j \in 1..Len(Probes) :
         /\ Probes[j].url = candidates[j]
         /\ Probes[j].ok = ValidAt(j)
         /\ Probes[j].ok => j = Len(Probes)
    /\ feed # <<>> =>
         /\ Len(Probes) >= 1 /\ ValidAt(Len(Probes))
         /\ feed[1] = FeedResponse(world, src.page_url, Len(Probes))
         /\ \A j \in 1..(Len(Probes) - 1) : ~ValidAt(j)
         /\ ~ListingFetched
    /\ (feed # <<>> /\ pc \in {"write", "wrote"}) =>
         /\ Len(items) = Min(Len(feed[1].entries), 20)
         /\ \A k \in 1..Len(items) :
              LET e == feed[1].entries[k]
              IN /\ items[k].link = (IF e.link # EmptyUrl THEN e.link ELSE src.page_url)
                 /\ e.title # "" => items[k].title = e.title
    /\ pc \in {"strategy", "write", "wrote"} =>
         (feed = <<>> <=> \A j \in 1..Len(candidates) : ~ValidAt(j))
    /\ ListingFetched =>
         /\ Len(Probes) = Len(candidates)
         /\ \A j \in 1..Len(candidates) : ~ValidAt(j)

C6_Witness ==
  /\ pc = "write" /\ src.mode = "auto" /\ feed # <<>>
  /\ Len(Probes) = 4 /\ Len(candidates) > 4
  /\ FeedResponse(world, src.page_url, 1).raises
  /\ FeedResponse(world, src.page_url, 3).bozo
  /\ Len(feed[1].entries) > 20 /\ Len(items) = 20

\* ------------------------------------------------------------------------
\* Properties of scrape_items
\* ------------------------------------------------------------------------
ScrapeCandidates ==
  collect_links(fin.page_url, fin.listing.links, {}, <<>>, Max(fin.limit * 2, 30))
AllowedCandidates == SelectSeq(ScrapeCandidates, LAMBDA a : robots_allows(a.url, fin.policy))
ArticleFetches(reqs) == SelectSeq(reqs, LAMBDA e : e.ev = "get" /\ e.kind = "article")
BareItems(n) ==
  [j \in 1..n |-> Item(AllowedCandidates[j].title, AllowedCandidates[j].url, NOW,
                       AllowedCandidates[j].title)]

\* C7: for every outcome of the listing fetch scrape_items returns normally a
\* list of between 1 and limit items, which is the single placeholder of the
\* page when no article item was produced, an unfetched listing included.
C7_ReturnsNormally ==
  pc # "call" =>
    /\ pc = "returned"
    /\ Len(fout[1].items) \in 1..fin.limit
    /\ (~fin.listing.ok \/ AllowedCandidates = <<>>) =>
         fout[1].items = <<no_items_placeholder(fin.page_url)>>

\* C10 (as claimed): with k robots-allowed candidates whose pages all yield no
\* metadata the result is the first min(k, 10, limit) of them as bare items.
C10_BareItems ==
  (pc = "returned" /\ fin.kind = "gone") =>
    fout[1].items = BareItems(Min(Len(AllowedCandidates), Min(10, fin.limit)))

\* C10 (amended): the same for k >= 1; for k = 0 the result is the single
\* placeholder.  In every call the extractor is called at most 10 times and a
\* candidate robots disallows is neither fetched nor turned into an item.
C10_BareItemsOrPlaceholder ==
  pc = "returned" =>
    /\ fin.kind = "gone" =>
         IF Len(AllowedCandidates) >= 1
         THEN fout[1].items = BareItems(Min(Len(AllowedCandidates), Min(10, fin.limit)))
         ELSE fout[1].items = <<no_items_placeholder(fin.page_url)>>
    /\ Len(ArticleFetches(fout[1].reqs)) <= 10
    /\ fout[1].fetch_count = Len(ArticleFetches(fout[1].reqs))
    /\ \A k \in 1..Len(ScrapeCandidates) :
         ~robots_allows(ScrapeCandidates[k].url, fin.policy) =>
           /\ \A j \in 1..Len(fout[1].reqs) :
                ~(fout[1].reqs[j].ev = "get" /\ fout[1].reqs[j].url = ScrapeCandidates[k].url)
           /\ \A j \in 1..Len(fout[1].items) :
                fout[1].items[j].link # ScrapeCandidates[k].url

C10_Witness ==
  /\ pc = "returned" /\ fin.kind = "gone" /\ fin.limit > 10
  /\ Len(AllowedCandidates) > 10 /\ Len(AllowedCandidates) < Len(ScrapeCandidates)
  /\ Len(fout[1].items) = 10
  /\ fout[1].items[1].link # ScrapeCandidates[1].url

\* ------------------------------------------------------------------------
\* Properties of write_rss
\* ------------------------------------------------------------------------
\* C8: the document has one entry per item of the list given, in the order
\* given: entry k is made from item k.
C8_OrderPreserved ==
  pc = "returned" =>
    /\ Len(fout[1].entries) = Len(fin.items)
    /\ \A k \in 1..Len(fin.items) :
         /\ fout[1].entries[k].link = fin.items[k].link
         /\ fout[1].entries[k].title = escape(fin.items[k].title)
         /\ fin.items[k].pubDate # "" => fout[1].entries[k].pubDate = fin.items[k].pubDate

C8_Witness ==
  /\ pc = "returned" /\ Len(fin.items) = 3
  /\ fin.items[1] = fin.items[3] /\ fin.items[1] # fin.items[2]
  /\ fout[1].entries[1] = fout[1].entries[3] /\ fout[1].entries[1] # fout[1].entries[2]

\* ------------------------------------------------------------------------
\* Properties of discover_feed_urls
\* ------------------------------------------------------------------------
FirstIndex(s, x) == CHOOSE i \in 1..Len(s) : s[i] = x /\ \A j \in 1..(i - 1) : s[j] # x
\* out lists the values of inp once each, in the order of their first occurrence
KeepsFirstSeen(out, inp) ==
  /\ NoDup(out)
  /\ Range(out) = Range(inp)
  /\ \A i, j \in 1..Len(out) : i < j => FirstIndex(inp, out[i]) < FirstIndex(inp, out[j])

PageHints == IF fin.page.ok THEN link_hints(fin.page_url, fin.page.links) ELSE <<>>
Guesses == suffix_urls(fin.page_url) \o root_guesses(fin.page_url)
PlatformFeed ==
  IF is_medium(fin.page_url)
  THEN << Url(fin.page_url.www, fin.page_url.dom, rstrip(fin.page_url.path) \o <<"feed">>) >>
  ELSE <<>>
HoldsAllGuesses ==
  /\ \A k \in 1..Len(COMMON_SUFFIXES) :
       Url(fin.page_url.www, fin.page_url.dom, rstrip(fin.page_url.path) \o COMMON_SUFFIXES[k])
         \in Range(fout[1])
  /\ \A w \in {fin.page_url.www, FALSE}, p \in {<<"feed">>, <<"blog", "feed">>} :
       Url(w, fin.page_url.dom, p) \in Range(fout[1])

\* C9 (as claimed): the result has no duplicates and keeps the first-seen
\* order of the page's link hints, then the suffix URLs, then the root
\* guesses; every suffix URL and root guess is in it.
C9_HintsFirst ==
  pc = "returned" =>
    /\ KeepsFirstSeen(fout[1], PageHints \o Guesses)
    /\ HoldsAllGuesses

\* C9 (amended): the same, except that for a medium.com host the page's /feed
\* URL comes first, ahead of the link hints.
C9_PlatformThenHints ==
  pc = "returned" =>
    /\ KeepsFirstSeen(fout[1], PlatformFeed \o PageHints \o Guesses)
    /\ HoldsAllGuesses

C9_Witness ==
  /\ pc = "returned" /\ is_medium(fin.page_url) /\ Len(PageHints) = 2
  /\ fout[1][1] = PlatformFeed[1] /\ fout[1][2] = PageHints[1]
  /\ Len(fout[1]) < Len(PlatformFeed \o PageHints \o Guesses)

\* ------------------------------------------------------------------------
\* Properties of extract_article_meta
\* ------------------------------------------------------------------------
\* the dicts of a JSON value in the order they appear in the text: a dict
\* before what it holds, values and array elements from first to last
RECURSIVE InTextOrder(_)
InTextOrder(vs) ==
  IF vs = <<>> THEN <<>>
  ELSE LET v == Head(vs)
           own == IF v.kind = "dict" THEN <<v>> \o InTextOrder(v.values)
                  ELSE IF v.kind = "list" THEN InTextOrder(v.elems)
                  ELSE <<>>
       IN own \o InTextOrder(Tail(vs))

\* the objects of the page an item can be made from, in page order
ArticlesInPageOrder ==
  SelectSeq(InTextOrder(fin.page.ld),
            LAMBDA o : matches_type(o.type) /\ Or(o.headline, o.name) # "")

\* C11: when the page embeds matching structured objects, the item returned
\* is built from the first of them in page order (an object without headline
\* and name, from which no item can be made, left aside), and from no other.
C11_FirstInPageOrder ==
  (pc = "returned" /\ fin.page.status = "200" /\ ArticlesInPageOrder # <<>>) =>
    /\ fout[1] # <<>>
    /\ fout[1][1].title = Or(ArticlesInPageOrder[1].headline, ArticlesInPageOrder[1].name)

====
